---- MODULE Spec2Model ----
(***************************************************************************)
(* Model of the TREMOLO result aggregation and report writer of            *)
(* pyHCA/core/ioHCA.py: flatres, orderda, summary_tremolo,                 *)
(* write_tremolo_results and the seghca annotation reader read_hcadomain.  *)
(*                                                                         *)
(* Protein ids, arrangement labels, E-values and probabilities are modelled *)
(* by integers carrying the order Python's comparison gives them.  A hit   *)
(* record keeps the two fields the code compares or ranks on, "E-value"    *)
(* (E) and "Probab" (P); the remaining display fields are copied verbatim   *)
(* by the code and never compared.  A Python exception is a status value.  *)
(***************************************************************************)
EXTENDS Integers, Sequences, FiniteSets, TLC

VARIABLES targets, proteins, groups, cddres, xbest, querydom, lines, ret, pc

vars == <<targets, proteins, groups, cddres, xbest, querydom, lines, ret, pc>>

(* ---------------------------- bounds ---------------------------------- *)
MaxProt == 3
MaxDA == 2
MaxE == 1
MaxP == 1
MaxTotalHits == 3
MaxReportProt == 2
MaxReportHits == 2
MaxMembers == 2
MaxXbest == 3
MaxPos == 2
MaxLines == 3

Prots == 1..MaxProt
\* the proteins of the inputs of summary_tremolo and write_tremolo_results
ReportProts == 1..MaxReportProt
\* xbest; a negative cap is a legal Python slice bound
XBests == -1..MaxXbest
DAs == 1..MaxDA
EVals == 0..MaxE
Probs == 0..MaxP

(* ---------------------------- input domains --------------------------- *)
Range(s) == {s[i] : i \in DOMAIN s}

NoDupSeqs(S) ==
    UNION {{s \in [1..k -> S] : \A i, j \in 1..k : i # j => s[i] # s[j]} :
           k \in 0..Cardinality(S)}

HitRecs(ps) == [E : EVals, P : ps]

HitMaps(ps, budget) == UNION {[1..k -> HitRecs(ps)] : k \in 0..budget}

RECURSIVE TargetsOver(_, _, _)
TargetsOver(S, ps, budget) ==
    IF S = {} THEN {<<>>}
    ELSE LET p == CHOOSE x \in S : \A y \in S : x <= y
         IN UNION {{(p :> h) @@ t : t \in TargetsOver(S \ {p}, ps, budget - Len(h))} :
                   h \in HitMaps(ps, budget)}

\* every hit mapping of one sub-domain: protein -> hit id -> hit record
TargetMaps(prots, ps, budget) == UNION {TargetsOver(S, ps, budget) : S \in SUBSET prots}

\* every arrangement grouping of one sub-domain, in dictionary iteration
\* order: arrangement label -> member proteins
RECURSIVE GroupsOver(_, _, _)
GroupsOver(prots, k, budget) ==
    IF k = 0 THEN {<<>>}
    ELSE UNION {{<<[da |-> da, members |-> m]>> \o g :
                    g \in {x \in GroupsOver(prots, k - 1, budget - Len(m)) :
                              \A i \in DOMAIN x : x[i].da # da}} :
                da \in DAs, m \in {y \in NoDupSeqs(prots) : Len(y) <= budget}}

GroupMaps(prots) == UNION {GroupsOver(prots, k, MaxMembers) : k \in 0..MaxDA}

\* a record as read_hcadomain stores it for the line "domain s e"
HcaRecord(s, e) == <<s - 1, e, "domain", "!", "None">>

\* a record of six fields, as the annotation loop of the writer unpacks it
CddRecord(start, stop) == <<start, stop, "dom", 0, 0, "types">>

\* annotation mappings: none at all, or one list for every protein
AnnotMaps(prots) ==
    {<<>>} \cup {[p \in prots |-> l] :
                    l \in {<<HcaRecord(1, MaxPos)>>, <<CddRecord(0, MaxPos)>>}}

\* the lines of a seghca file: header, domain, another label, blank
HcaLines(prots) ==
    {<<">", p>> : p \in prots}
        \cup {<<"domain", s, e>> : s \in 1..MaxPos, e \in 1..MaxPos}
        \cup {<<"cluster">>, <<>>}

HcaFiles(prots) == UNION {[1..k -> HcaLines(prots)] : k \in 0..MaxLines}

(* ---------------------------- sorting --------------------------------- *)
\* Python's tuple comparison a < b
RECURSIVE LexLess(_, _)
LexLess(a, b) ==
    IF a = <<>> THEN b # <<>>
    ELSE IF b = <<>> THEN FALSE
    ELSE IF Head(a) < Head(b) THEN TRUE
    ELSE IF Head(a) > Head(b) THEN FALSE
    ELSE LexLess(Tail(a), Tail(b))

RECURSIVE InsertTuple(_, _)
InsertTuple(x, s) ==
    IF s = <<>> THEN <<x>>
    ELSE IF LexLess(x, Head(s)) THEN <<x>> \o s
    ELSE <<Head(s)>> \o InsertTuple(x, Tail(s))

\* sorted(list of tuples) / list.sort(): ascending, stable
RECURSIVE SortTuples(_)
SortTuples(s) ==
    IF s = <<>> THEN <<>>
    ELSE InsertTuple(s[Len(s)], SortTuples(SubSeq(s, 1, Len(s) - 1)))

(* ---------------------------- flatres --------------------------------- *)
\* faulty variant: the running best is overwritten by every hit
FlatresBestLast(cur, e) == e

\* lines 155-156: keep the smaller E-value
FlatresBest(cur, e) == IF e < cur THEN e ELSE cur

\* lines 159-162: the flattened display row of one hit
FlatRow(res) == <<res.E, res.P>>

\* lines 152-158: the hits of one protein folded into prot_orders
RECURSIVE FlatresHits(_, _, _, _)
FlatresHits(po, name, hits, i) ==
    IF i > Len(hits) THEN po
    ELSE LET e == hits[i].E
             po2 == IF name \in DOMAIN po.val
                    THEN [po EXCEPT !.val[name] = FlatresBest(po.val[name], e)]
                    ELSE [keys |-> Append(po.keys, name),
                          val |-> (name :> e) @@ po.val]
         IN FlatresHits(po2, name, hits, i + 1)

\* lines 150-162: the loop over proteins; targets[name] raises KeyError
RECURSIVE FlatresLoop(_, _, _, _)
FlatresLoop(st, tg, prs, i) ==
    IF i > Len(prs) THEN st
    ELSE LET name == prs[i]
         IN IF name \notin DOMAIN tg
            THEN [st EXCEPT !.status = "KeyError"]
            ELSE FlatresLoop(
                   [status |-> "ok",
                    po |-> FlatresHits(st.po, name, tg[name], 1),
                    flat |-> (name :> [h \in DOMAIN tg[name] |-> FlatRow(tg[name][h])])
                             @@ st.flat],
                   tg, prs, i + 1)

\* faulty variant: proteins ordered by E-value alone, equal E-values left as first seen
FlatOrdersStable(po) ==
    LET byE == SortTuples([i \in 1..Len(po.keys) |-> <<po.val[po.keys[i]], i>>])
    IN [i \in 1..Len(byE) |-> <<byE[i][1], po.keys[byE[i][2]]>>]

\* line 167: sorted([(prot_orders[prot], prot) for prot in prot_orders])
FlatOrders(po) ==
    SortTuples([i \in 1..Len(po.keys) |-> <<po.val[po.keys[i]], po.keys[i]>>])

\* lines 143-170; line 168 unpacks zip(*flatorders) into two names
flatres(tg, prs) ==
    LET st == FlatresLoop([status |-> "ok", po |-> [keys |-> <<>>, val |-> <<>>],
                           flat |-> <<>>], tg, prs, 1)
        flatorders == FlatOrders(st.po)
    IN IF st.status # "ok"
       THEN [status |-> st.status, order |-> <<>>, flat |-> <<>>]
       ELSE IF flatorders = <<>>
       THEN [status |-> "ValueError", order |-> <<>>, flat |-> <<>>]
       ELSE [status |-> "ok",
             order |-> [i \in 1..Len(flatorders) |-> flatorders[i][2]],
             flat |-> st.flat]

(* ---------------------------- flatres specification ------------------- *)
NoRet == [status |-> "none"]

InitFlat ==
    /\ targets \in TargetMaps(Prots, {0}, MaxTotalHits)
    /\ proteins \in NoDupSeqs(Prots)
    /\ groups = <<>>
    /\ cddres = <<>>
    /\ xbest = 0
    /\ querydom = 0
    /\ lines = <<>>
    /\ ret = NoRet
    /\ pc = "input"

CallFlatres ==
    /\ pc = "input"
    /\ ret' = flatres(targets, proteins)
    /\ pc' = "flatres"
    /\ UNCHANGED <<targets, proteins, groups, cddres, xbest, querydom, lines>>

NextFlat == CallFlatres

SpecFlat == InitFlat /\ [][NextFlat]_vars

(* ---------------------------- flatres claims -------------------------- *)
HasHit(tg, p) == p \in DOMAIN tg /\ tg[p] # <<>>

\* the minimum E-value over all hits of protein p
BestE(tg, p) ==
    CHOOSE e \in {tg[p][h].E : h \in DOMAIN tg[p]} :
        \A h \in DOMAIN tg[p] : e <= tg[p][h].E

IndexIn(s, x) == CHOOSE i \in DOMAIN s : s[i] = x

FlatReturned == pc = "flatres" /\ ret.status = "ok"

\* C1: the order returned by flatres holds exactly the given proteins that
\* have at least one hit, each once, and is non-decreasing in best E-value
\* (the minimum E-value over the protein's hits); with every given protein a
\* key of targets and one of them hit, the call returns.
C1_FlatOrderSortedByBest ==
    /\ FlatReturned =>
         /\ Range(ret.order) = {p \in Range(proteins) : HasHit(targets, p)}
         /\ \A i, j \in DOMAIN ret.order : i # j => ret.order[i] # ret.order[j]
         /\ \A i, j \in DOMAIN ret.order :
               i < j => BestE(targets, ret.order[i]) <= BestE(targets, ret.order[j])
    /\ ( /\ pc = "flatres"
         /\ Range(proteins) \subseteq DOMAIN targets
         /\ \E p \in Range(proteins) : HasHit(targets, p) ) => ret.status = "ok"

\* a call where a protein's best hit is not its first, a second protein
\* ranks after it and a third given protein has no hit
C1_Witness ==
    /\ FlatReturned
    /\ Len(ret.order) = 2
    /\ Len(proteins) = 3
    /\ BestE(targets, ret.order[1]) < BestE(targets, ret.order[2])
    /\ \E p \in Range(ret.order) :
          Len(targets[p]) = 2 /\ targets[p][2].E < targets[p][1].E

Reorderings(s) ==
    {q \in [DOMAIN s -> Range(s)] : \A i, j \in DOMAIN s : i # j => q[i] # q[j]}

C9_EmptyOrderReturned ==
    ( /\ pc = "flatres"
      /\ Range(proteins) \subseteq DOMAIN targets
      /\ \A p \in Range(proteins) : ~HasHit(targets, p) )
    => /\ ret.status = "ok"
       /\ ret.order = <<>>
       /\ DOMAIN ret.flat = Range(proteins)
       /\ \A p \in Range(proteins) : ret.flat[p] = <<>>

(* ---------------------------- orderda --------------------------------- *)
\* lines 176, 179: the (arrangement, protein) pairs in iteration order
RECURSIVE MemberPairs(_, _)
MemberPairs(arr, i) ==
    IF i > Len(arr) THEN <<>>
    ELSE [j \in 1..Len(arr[i].members) |-> <<arr[i].da, arr[i].members[j]>>]
         \o MemberPairs(arr, i + 1)

\* lines 176-181: keptda; targets[prot] raises KeyError
RECURSIVE OrderdaKept(_, _, _, _)
OrderdaKept(pairs, tg, i, keptda) ==
    IF i > Len(pairs) THEN [status |-> "ok", keptda |-> keptda]
    ELSE LET da == pairs[i][1]
             prot == pairs[i][2]
         IN IF prot \notin DOMAIN tg
            THEN [status |-> "KeyError", keptda |-> keptda]
            ELSE OrderdaKept(pairs, tg, i + 1,
                   keptda \o [h \in 1..Len(tg[prot]) |-> <<tg[prot][h].E, da>>])

\* faulty variant: keptda is walked in the order it was collected
OrderdaUnsorted(keptda) == keptda

\* line 184: keptda.sort()
OrderdaSort(keptda) == SortTuples(keptda)

\* faulty variant: the walk appends whatever it meets
OrderdaAppendAll(da, visited) == TRUE

\* line 187: if da not in visited
OrderdaNotVisited(da, visited) == da \notin visited

\* lines 186-189: first occurrence of each arrangement, in sorted order
RECURSIVE OrderdaWalk(_, _, _, _)
OrderdaWalk(keptda, i, orderedda, visited) ==
    IF i > Len(keptda) THEN orderedda
    ELSE LET da == keptda[i][2]
         IN IF OrderdaNotVisited(da, visited)
            THEN OrderdaWalk(keptda, i + 1, Append(orderedda, da), visited \cup {da})
            ELSE OrderdaWalk(keptda, i + 1, orderedda, visited)

\* lines 172-190
orderda(arr, tg) ==
    LET k == OrderdaKept(MemberPairs(arr, 1), tg, 1, <<>>)
    IN IF k.status # "ok"
       THEN [status |-> k.status, orderedda |-> <<>>]
       ELSE [status |-> "ok",
             orderedda |-> OrderdaWalk(OrderdaSort(k.keptda), 1, <<>>, {})]

(* ---------------------------- orderda specification ------------------- *)
InitOrder ==
    /\ targets \in TargetMaps(ReportProts, {0}, MaxReportHits)
    /\ groups \in GroupMaps(ReportProts)
    /\ proteins = <<>>
    /\ cddres = <<>>
    /\ xbest = 0
    /\ querydom = 0
    /\ lines = <<>>
    /\ ret = NoRet
    /\ pc = "input"

CallOrderda ==
    /\ pc = "input"
    /\ ret' = orderda(groups, targets)
    /\ pc' = "orderda"
    /\ UNCHANGED <<targets, proteins, groups, cddres, xbest, querydom, lines>>

NextOrder == CallOrderda

SpecOrder == InitOrder /\ [][NextOrder]_vars

(* ---------------------------- orderda claims -------------------------- *)
Signatures(arr) == {arr[i].da : i \in DOMAIN arr}

MembersOf(arr, da) == UNION {Range(arr[i].members) : i \in {k \in DOMAIN arr : arr[k].da = da}}

\* the E-values of all hits of all member proteins of a signature
HitEs(arr, tg, da) ==
    UNION {{tg[p][h].E : h \in DOMAIN tg[p]} : p \in MembersOf(arr, da) \cap DOMAIN tg}

MinE(arr, tg, da) == CHOOSE e \in HitEs(arr, tg, da) : \A x \in HitEs(arr, tg, da) : e <= x

OrderReturned == pc = "orderda" /\ ret.status = "ok"

NoRepeat(s) == \A i, j \in DOMAIN s : i # j => s[i] # s[j]

\* C3 as stated: the returned sequence is a permutation of all the keys of
\* arrangements.
C3_AllSignatures ==
    OrderReturned =>
        Range(ret.orderedda) = Signatures(groups) /\ NoRepeat(ret.orderedda)

\* C3 amended: the returned sequence holds, each exactly once, the keys of
\* arrangements of which some member protein has a hit; a key whose members
\* have no hit is left out.
C3_HitSignatures ==
    OrderReturned =>
        /\ Range(ret.orderedda) =
              {da \in Signatures(groups) : HitEs(groups, targets, da) # {}}
        /\ NoRepeat(ret.orderedda)

\* one signature contributes two hits, another one none
C3_Witness ==
    /\ OrderReturned
    /\ \E da \in Range(ret.orderedda) :
          \E p \in MembersOf(groups, da) : Len(targets[p]) >= 2
    /\ \E da \in Signatures(groups) : da \notin Range(ret.orderedda)

\* C4: signatures are returned in ascending minimum E-value over the hits of
\* their member proteins, equal minima in ascending arrangement label.
C4_OrderedByMinE ==
    OrderReturned =>
        \A i, j \in DOMAIN ret.orderedda :
            i < j =>
               LET a == MinE(groups, targets, ret.orderedda[i])
                   b == MinE(groups, targets, ret.orderedda[j])
               IN a < b \/ (a = b /\ ret.orderedda[i] < ret.orderedda[j])

\* two signatures with the same minimum are returned, the first of them
\* iterated last in the input
C4_Witness ==
    /\ OrderReturned
    /\ Len(ret.orderedda) = 2
    /\ groups[2].da = ret.orderedda[1]
    /\ MinE(groups, targets, ret.orderedda[1]) = MinE(groups, targets, ret.orderedda[2])

(* ---------------------------- summary_tremolo ------------------------- *)
\* line 214: prot2grp[prot] = da
SummaryIndexPut(prot2grp, prot, da) == (prot :> da) @@ prot2grp

\* lines 211-214: the reverse index protein -> arrangement
RECURSIVE SummaryIndex(_, _, _)
SummaryIndex(pairs, i, prot2grp) ==
    IF i > Len(pairs) THEN prot2grp
    ELSE SummaryIndex(pairs, i + 1, SummaryIndexPut(prot2grp, pairs[i][2], pairs[i][1]))

\* lines 217: the proteins of targets[querydom], in iteration order
RECURSIVE KeysInOrder(_)
KeysInOrder(S) ==
    IF S = {} THEN <<>>
    ELSE LET p == CHOOSE x \in S : \A y \in S : x <= y
         IN <<p>> \o KeysInOrder(S \ {p})

\* lines 216-221: data; prot2grp[prot] raises KeyError
RECURSIVE SummaryData(_, _, _, _, _)
SummaryData(tg, keys, i, prot2grp, data) ==
    IF i > Len(keys) THEN [status |-> "ok", data |-> data]
    ELSE LET prot == keys[i]
         IN IF tg[prot] # <<>> /\ prot \notin DOMAIN prot2grp
            THEN [status |-> "KeyError", data |-> data]
            ELSE SummaryData(tg, keys, i + 1, prot2grp,
                   data \o [h \in 1..Len(tg[prot]) |->
                              <<tg[prot][h].E, tg[prot][h].P, prot, h, prot2grp[prot]>>])

Min2(a, b) == IF a < b THEN a ELSE b
Max2(a, b) == IF a > b THEN a ELSE b

\* faulty variant: one row more than the cap is kept
SummaryKeepOneMore(data, x) == SubSeq(data, 1, Min2(x + 1, Len(data)))

\* line 223: data[:xbest]
SummaryKeep(data, x) ==
    IF x >= 0 THEN SubSeq(data, 1, Min2(x, Len(data)))
    ELSE SubSeq(data, 1, Max2(Len(data) + x, 0))

\* line 225: one summary line
SummaryLine(q, d) == <<q + 1, d[3], d[4], d[5], d[1], d[2]>>

\* lines 209-226, for the sub-domain querydom of targets
summary_tremolo(q, tg, grp, x) ==
    LET prot2grp == SummaryIndex(MemberPairs(grp, 1), 1, <<>>)
        d == SummaryData(tg, KeysInOrder(DOMAIN tg), 1, prot2grp, <<>>)
        kept == SummaryKeep(SortTuples(d.data), x)
    IN IF d.status # "ok"
       THEN [status |-> d.status, rows |-> <<>>]
       ELSE [status |-> "ok", rows |-> [i \in 1..Len(kept) |-> SummaryLine(q, kept[i])]]

(* ---------------------------- summary specification ------------------- *)
InitSummary ==
    /\ targets \in TargetMaps(ReportProts, Probs, MaxTotalHits)
    /\ groups \in GroupMaps(ReportProts)
    /\ xbest \in XBests
    /\ proteins = <<>>
    /\ cddres = <<>>
    /\ querydom = 0
    /\ lines = <<>>
    /\ ret = NoRet
    /\ pc = "input"

CallSummary ==
    /\ pc = "input"
    /\ ret' = summary_tremolo(querydom, targets, groups, xbest)
    /\ pc' = "summary"
    /\ UNCHANGED <<targets, proteins, groups, cddres, xbest, querydom, lines>>

NextSummary == CallSummary

SpecSummary == InitSummary /\ [][NextSummary]_vars

(* ---------------------------- summary claims -------------------------- *)
\* the hits of the sub-domain, as (protein, hit id)
AllHits(tg) == UNION {{<<p, h>> : h \in DOMAIN tg[p]} : p \in DOMAIN tg}

GroupsOf(arr, p) == {da \in Signatures(arr) : p \in MembersOf(arr, da)}

RowHit(r) == <<r[2], r[3]>>

RowKey(tg, r) == <<tg[r[2]][r[3]].E, tg[r[2]][r[3]].P>>

HitKey(tg, ph) == <<tg[ph[1]][ph[2]].E, tg[ph[1]][ph[2]].P>>

\* the rows are min(xbest, n) distinct hits, in ascending (E-value,
\* probability), none of them above a hit that is left out
LowestRows(tg, rows, x) ==
    /\ Len(rows) = Min2(x, Cardinality(AllHits(tg)))
    /\ \A i \in DOMAIN rows : RowHit(rows[i]) \in AllHits(tg)
    /\ \A i \in DOMAIN rows :
          rows[i][5] = RowKey(tg, rows[i])[1] /\ rows[i][6] = RowKey(tg, rows[i])[2]
    /\ \A i, j \in DOMAIN rows : i # j => RowHit(rows[i]) # RowHit(rows[j])
    /\ \A i, j \in DOMAIN rows :
          i < j => ~LexLess(RowKey(tg, rows[j]), RowKey(tg, rows[i]))
    /\ \A ph \in AllHits(tg) \ {RowHit(rows[i]) : i \in DOMAIN rows} :
          \A i \in DOMAIN rows : ~LexLess(HitKey(tg, ph), RowKey(tg, rows[i]))
    /\ Cardinality(AllHits(tg)) <= x =>
          {RowHit(rows[i]) : i \in DOMAIN rows} = AllHits(tg)

EveryHitProteinGrouped(arr, tg) ==
    \A p \in DOMAIN tg : tg[p] # <<>> => GroupsOf(arr, p) # {}

LastGroupOf(arr, p) ==
    LET last == CHOOSE i \in DOMAIN arr :
                   /\ p \in Range(arr[i].members)
                   /\ \A k \in DOMAIN arr : p \in Range(arr[k].members) => k <= i
    IN arr[last].da

\* C8 as stated: a protein that is a member of two arrangement groups is never
\* given, without an error, the label of the group that happened to be
\* iterated last; a protein with hits and no group makes the call fail.
C8_NoLastWriteWins ==
    pc = "summary" =>
        /\ \A p \in DOMAIN targets :
              Cardinality(GroupsOf(groups, p)) >= 2 =>
                 \A i \in DOMAIN ret.rows :
                    ret.rows[i][2] = p => ret.rows[i][4] # LastGroupOf(groups, p)
        /\ (\E p \in DOMAIN targets : targets[p] # <<>> /\ GroupsOf(groups, p) = {})
              => ret.status # "ok"

(* ---------------------------- read_hcadomain -------------------------- *)
\* lines 105-113: one line of the file; prot is unbound until a header line
ReadHcaLine(st, line) ==
    IF line = <<>> THEN [st EXCEPT !.status = "IndexError"]
    ELSE IF line[1] = ">"
    THEN [st EXCEPT !.prot = <<line[2]>>,
                    !.annotation = (line[2] :> <<>>) @@ st.annotation]
    ELSE IF line[1] = "domain"
    THEN IF st.prot = <<>>
         THEN [st EXCEPT !.status = "UnboundLocalError"]
         ELSE [st EXCEPT !.annotation[st.prot[1]] =
                            Append(st.annotation[st.prot[1]],
                                   <<line[2] - 1, line[3], line[1], "!", "None">>)]
    ELSE st

\* lines 103-114
RECURSIVE ReadHcaLoop(_, _, _)
ReadHcaLoop(st, file, i) ==
    IF i > Len(file) \/ st.status # "ok" THEN st
    ELSE ReadHcaLoop(ReadHcaLine(st, file[i]), file, i + 1)

read_hcadomain(file) ==
    LET st == ReadHcaLoop([status |-> "ok", prot |-> <<>>, annotation |-> <<>>], file, 1)
    IN [status |-> st.status, annotation |-> st.annotation]

(* ---------------------------- write_tremolo_results ------------------- *)
\* lines 245-265: header, query and sub-domain boundary lines
WritePrefix(q) == <<<<"#header">>, <<"Qname">>, <<"Qdesc">>, <<"Qseq">>, <<"Qdom", q + 1, 1, MaxPos>>>>

\* lines 291-298: the lines of the hits of one protein
RECURSIVE WriteHits(_, _, _)
WriteHits(q, rows, hit) ==
    IF hit > Len(rows) THEN <<>>
    ELSE << <<"Hit", q + 1, hit, rows[hit][1], rows[hit][2]>>,
            <<"HitQali", q + 1, hit>>, <<"HitQcon", q + 1, hit>>,
            <<"HitTcon", q + 1, hit>>, <<"HitTali", q + 1, hit>>, <<"//">> >>
         \o WriteHits(q, rows, hit + 1)

\* lines 287-288: the annotation loop; each record is unpacked into six names
RECURSIVE WriteAnnotationLoop(_, _, _)
WriteAnnotationLoop(q, recs, i) ==
    IF i > Len(recs) THEN [status |-> "ok", out |-> <<>>]
    ELSE IF Len(recs[i]) # 6 THEN [status |-> "ValueError", out |-> <<>>]
    ELSE LET rest == WriteAnnotationLoop(q, recs, i + 1)
         IN [status |-> rest.status,
             out |-> <<<<"Qdom", q + 1, recs[i][3], recs[i][1] + 1, recs[i][2],
                         recs[i][4], recs[i][5]>>>> \o rest.out]

\* lines 286-290
WriteAnnotations(q, cdd, prot) ==
    IF prot \in DOMAIN cdd
    THEN WriteAnnotationLoop(q, cdd[prot], 1)
    ELSE [status |-> "ok", out |-> <<<<"Qdom", q + 1, "None">>>>]

\* lines 284-298: the blocks of the proteins of one arrangement
RECURSIVE WriteProteins(_, _, _, _, _)
WriteProteins(q, cdd, order, flat, i) ==
    IF i > Len(order) THEN [status |-> "ok", out |-> <<>>]
    ELSE LET prot == order[i]
             ann == WriteAnnotations(q, cdd, prot)
         IN IF ann.status # "ok"
            THEN [status |-> ann.status, out |-> <<<<">", prot>>>> \o ann.out]
            ELSE LET rest == WriteProteins(q, cdd, order, flat, i + 1)
                 IN [status |-> rest.status,
                     out |-> <<<<">", prot>>>> \o ann.out \o WriteHits(q, flat[prot], 1)
                             \o rest.out]

MembersIn(grp, da) == grp[CHOOSE i \in DOMAIN grp : grp[i].da = da].members

\* faulty variant: every arrangement of the grouping gets a section
WriteEveryArrangement(grp, orderedda) == [i \in DOMAIN grp |-> grp[i].da]

\* line 279: for da in orderedda
WriteArrangementList(grp, orderedda) == orderedda

\* lines 279-298: one section per arrangement; calls records what flatres got
RECURSIVE WriteArrangements(_, _, _, _, _, _)
WriteArrangements(q, tg, cdd, grp, das, i) ==
    IF i > Len(das) THEN [status |-> "ok", out |-> <<>>, calls |-> <<>>]
    ELSE LET prs == MembersIn(grp, das[i])
             f == flatres(tg, prs)
             call == [da |-> das[i], proteins |-> prs, status |-> f.status]
         IN IF f.status # "ok"
            THEN [status |-> f.status, out |-> <<<<"##">>>>, calls |-> <<call>>]
            ELSE LET blk == WriteProteins(q, cdd, f.order, f.flat, 1)
                 IN IF blk.status # "ok"
                    THEN [status |-> blk.status, out |-> <<<<"##">>>> \o blk.out,
                          calls |-> <<call>>]
                    ELSE LET rest == WriteArrangements(q, tg, cdd, grp, das, i + 1)
                         IN [status |-> rest.status,
                             out |-> <<<<"##">>>> \o blk.out \o rest.out,
                             calls |-> <<call>> \o rest.calls]

\* program constant: the default of xbest
DefaultXbest == 100

\* lines 243-298, for a query of one sub-domain
write_tremolo_results(q, tg, cdd, grp, x) ==
    LET sm == summary_tremolo(q, tg, grp, x)
        od == orderda(grp, tg)
        info == [i \in DOMAIN od.orderedda |->
                   <<"INFO", q, od.orderedda[i], Len(MembersIn(grp, od.orderedda[i]))>>]
        secs == WriteArrangements(q, tg, cdd, grp,
                                  WriteArrangementList(grp, od.orderedda), 1)
    IN IF sm.status # "ok"
       THEN [status |-> sm.status, out |-> WritePrefix(q), calls |-> <<>>]
       ELSE LET head == WritePrefix(q)
                          \o [i \in DOMAIN sm.rows |-> <<"Qdom">> \o sm.rows[i]]
                          \o <<<<"# Query domain", q + 1>>>>
            IN IF od.status # "ok"
               THEN [status |-> od.status, out |-> head, calls |-> <<>>]
               ELSE [status |-> secs.status,
                     out |-> head \o <<<<"# Domain">>>> \o info \o secs.out,
                     calls |-> secs.calls]

(* ---------------------------- report specifications ------------------- *)
WriteReport ==
    /\ pc = "annotated"
    /\ ret' = write_tremolo_results(querydom, targets, cddres, groups, xbest)
    /\ pc' = "written"
    /\ UNCHANGED <<targets, proteins, groups, cddres, xbest, querydom, lines>>

InitWrite ==
    /\ targets \in TargetsOver(ReportProts, {0}, MaxReportHits)
    /\ groups \in GroupMaps(ReportProts)
    /\ cddres \in AnnotMaps(ReportProts)
    /\ xbest = DefaultXbest
    /\ proteins = <<>>
    /\ querydom = 0
    /\ lines = <<>>
    /\ ret = NoRet
    /\ pc = "annotated"

NextWrite == WriteReport

SpecWrite == InitWrite /\ [][NextWrite]_vars

\* a seghca file is read, then a report is written in which every protein has
\* one hit and all proteins share one arrangement
InitRound ==
    /\ lines \in HcaFiles(ReportProts)
    /\ targets = [p \in ReportProts |-> <<[E |-> 0, P |-> 0]>>]
    /\ groups = <<[da |-> 1, members |-> KeysInOrder(ReportProts)]>>
    /\ cddres = <<>>
    /\ xbest = DefaultXbest
    /\ proteins = <<>>
    /\ querydom = 0
    /\ ret = NoRet
    /\ pc = "input"

ReadAnnotation ==
    /\ pc = "input"
    /\ ret' = read_hcadomain(lines)
    /\ cddres' = IF ret'.status = "ok" THEN ret'.annotation ELSE cddres
    /\ pc' = IF ret'.status = "ok" THEN "annotated" ELSE "failed"
    /\ UNCHANGED <<targets, proteins, groups, xbest, querydom, lines>>

NextRound == ReadAnnotation \/ WriteReport

SpecRound == InitRound /\ [][NextRound]_vars

(* ---------------------------- report claims --------------------------- *)
IsProteinLine(l) == Len(l) = 2 /\ l[1] = ">"

IsNoneLine(l, q) == Len(l) = 3 /\ l[1] = "Qdom" /\ l[2] = q + 1 /\ l[3] = "None"

IsAnnotationLine(l) == Len(l) = 7 /\ l[1] = "Qdom"

Unannotated(cdd, p) == p \notin DOMAIN cdd \/ cdd[p] = <<>>

\* C6 as stated: every emitted protein without an annotation entry, or with
\* an empty one, is followed by the line Qdom <sub-domain> None, and a report
\* that was written through holds no protein block without an annotation or
\* None line.
C6_NoneMarkerForUnannotated ==
    pc = "written" =>
        \A i \in DOMAIN ret.out :
            IsProteinLine(ret.out[i]) =>
                /\ Unannotated(cddres, ret.out[i][2]) =>
                      i < Len(ret.out) /\ IsNoneLine(ret.out[i + 1], querydom)
                /\ ret.status = "ok" =>
                      i < Len(ret.out) /\ ( \/ IsNoneLine(ret.out[i + 1], querydom)
                                            \/ IsAnnotationLine(ret.out[i + 1]) )

\* the domain lines that follow the last header line of protein p
StoredLines(file, p) ==
    LET hdr == {i \in DOMAIN file : file[i] = <<">", p>>}
        last == CHOOSE i \in hdr : \A k \in hdr : k <= i
        nxt == {k \in DOMAIN file : k > last /\ file[k] # <<>> /\ file[k][1] = ">"}
        stop == IF nxt = {} THEN Len(file) + 1
                ELSE CHOOSE k \in nxt : \A m \in nxt : k <= m
    IN SelectSeq(SubSeq(file, last + 1, stop - 1),
                 LAMBDA l : l # <<>> /\ l[1] = "domain")

\* C7 as stated: each pair (s, e) of a domain line is stored as the 5-tuple
\* with (start, stop) = (s-1, e), and the annotation loop of the writer
\* renders the stored records, completing and writing s and e again.
C7_RoundTrip ==
    /\ pc \in {"annotated", "written"} =>
          \A p \in DOMAIN cddres :
             LET dl == StoredLines(lines, p)
             IN /\ Len(cddres[p]) = Len(dl)
                /\ \A k \in DOMAIN dl :
                      /\ Len(cddres[p][k]) = 5
                      /\ cddres[p][k][1] = dl[k][2] - 1
                      /\ cddres[p][k][2] = dl[k][3]
    /\ pc = "written" =>
          /\ ret.status = "ok"
          /\ \A i \in DOMAIN ret.out :
                IsProteinLine(ret.out[i]) /\ ret.out[i][2] \in DOMAIN cddres =>
                   LET dl == StoredLines(lines, ret.out[i][2])
                   IN \A k \in DOMAIN dl :
                         /\ i + k <= Len(ret.out)
                         /\ IsAnnotationLine(ret.out[i + k])
                         /\ ret.out[i + k][4] = dl[k][2]
                         /\ ret.out[i + k][5] = dl[k][3]

\* C10: every arrangement handed to flatres by the writer has a member
\* protein with a hit, is one that orderda returned, and flatres returns an
\* order for it.
C10_FlatresGetsHitArrangements ==
    pc = "written" =>
        \A c \in DOMAIN ret.calls :
            /\ \E p \in Range(ret.calls[c].proteins) : HasHit(targets, p)
            /\ ret.calls[c].da \in Range(orderda(groups, targets).orderedda)
            /\ ret.calls[c].status = "ok"

\* a report with a section written although the grouping also holds an
\* arrangement without any hit
C10_Witness ==
    /\ pc = "written"
    /\ ret.status = "ok"
    /\ Len(ret.calls) = 1
    /\ \E da \in Signatures(groups) : HitEs(groups, targets, da) = {}

====
